---------------------------- MODULE Spec2Model ----------------------------
(***************************************************************************)
(* The pthread thread pool of src/src/ThreadPool_pthread.cpp: the          *)
(* constructor, the worker run loop (slaunch, initThread, launch), the     *)
(* cascading wake-up, the ThinBarrier rendezvous, runInternal and the      *)
(* destructor, as one state machine.                                       *)
(*                                                                         *)
(* Thread 0 is the thread that constructs the pool, calls runInternal and  *)
(* destroys the pool; its position is pc0.  A spawned thread has no state  *)
(* of its own before it draws its id from the static counter `next`, so    *)
(* the threads created and not yet started are counted (pending); from     *)
(* its id on, a spawned thread is the worker of that id and its position   *)
(* is pc[tid].  Every shared read or write of the source is one step.      *)
(* Memory is sequentially consistent, so __sync_synchronize is no step.    *)
(* The number of runInternal calls in a behaviour is not bounded.          *)
(*                                                                         *)
(* Spec is the pool whose primitives succeed, in an environment that sets  *)
(* neither binding variable.  SpecNoted also notes the count each call     *)
(* asked for, FairSpec adds the scheduler's fairness, SpecFaults lets the  *)
(* semaphore and pthread calls fail, SpecConstruct is the construction in  *)
(* any environment, SpecGetPool the calls of getSystemThreadPool and       *)
(* SpecPair the pool called for one or two threads with longer sequences.  *)
(* SpecInterrupts is the pool whose gate waits are interrupted by signals. *)
(***************************************************************************)
EXTENDS Integers, Sequences, FiniteSets, TLC

\* Bounds of the model.
MaxThreads == 4     \* largest maxThreads the topology may report
MaxItems == 1       \* longest work-item sequence passed to run

\* Fan-out of the cascade (const unsigned multiple = 2).
multiple == 2

VARIABLES
  maxThreads,   \* ThreadPool::maxThreads, from LL::getMaxThreads()
  pc0,          \* position of thread 0 (constructor, runInternal, destructor)
  i0,           \* loop variable i of the constructor's and destructor's loops
  reqNum,       \* the count the caller asked for, where a specification notes it
  num,          \* runInternal's num after "Sanitize num"
  begin,        \* runInternal's argument begin
  end,          \* runInternal's argument end
  started,      \* ThinBarrier::started
  shutdown,     \* ThreadPool_pthread::shutdown
  starting,     \* ThreadPool_pthread::starting
  workBegin,    \* ThreadPool_pthread::workBegin (0 is the null pointer)
  workEnd,      \* ThreadPool_pthread::workEnd
  starts,       \* the semaphores' counts, << >> until the array is allocated
  freed,        \* delete [] starts; delete [] threads has run
  next,         \* slaunch's static unsigned next
  pending,      \* threads created by pthread_create that have not drawn an id
  ids,          \* the ids drawn in slaunch, in the order they were drawn
  pc,           \* position of the worker of each id
  workPtr,      \* doWork's local workPtr, per thread
  workEndL,     \* doWork's local workEndL, per thread
  joined,       \* workers whose pthread_join has returned
  sampling,     \* workers between beginThreadSampling and endThreadSampling
  round,        \* runInternal calls begun: 0 none, 1 the first, 2 a later one
  woken,        \* workers whose gate wait has returned since the last run or destroy began
  execs,        \* per thread and work item: executions since the last run call began
  rel,          \* per gate and releasing thread: releases since the last run or destroy began
  doNotBindThreads, \* LL::EnvCheck("GALOIS_DO_NOT_BIND_THREADS")
  doNotBindMain,    \* LL::EnvCheck("GALOIS_DO_NOT_BIND_MAIN_THREAD")
  bound,        \* per thread: its calls of bindThreadToProcessor
  built,        \* how often the constructor of the static `pool` has been entered
  handed        \* the instances getSystemThreadPool has returned, by their number

vars == << maxThreads, pc0, i0, reqNum, num, begin, end, started, shutdown,
           starting, workBegin, workEnd, starts, freed, next, pending, ids,
           pc, workPtr, workEndL, joined, sampling, round, woken, execs, rel,
           doNotBindThreads, doNotBindMain, bound, built, handed >>

\* groups for UNCHANGED
\* what no member function of the pool writes: the topology, the
\* environment and the bookkeeping of getSystemThreadPool
outer == << maxThreads, doNotBindThreads, doNotBindMain, built, handed >>
args == << reqNum, num, begin, end >>
descr == << workBegin, workEnd >>
spawn == << next, pending, ids >>
locals == << workPtr, workEndL >>
ghost == << round, woken, execs, rel >>

Threads == 0 .. (maxThreads - 1)        \* worker ids; 0 is thread 0
Workers == 1 .. (maxThreads - 1)        \* ids of the spawned threads
Pointers == 1 .. (MaxItems + 1)         \* RunCommand* values a caller passes
LongPointers == 1 .. (MaxItems + 2)     \* the same, for a sequence one item longer
Items == 1 .. (MaxItems + 1)            \* addresses that may hold a work item
GateIdx == 0 .. (multiple * MaxThreads + multiple) \* indices a cascade may compute

Min(a, b) == IF a < b THEN a ELSE b
Max(a, b) == IF a > b THEN a ELSE b

NoExecs == [t \in Threads |-> [a \in Items |-> 0]]
NoRel == [n \in GateIdx |-> [t \in Threads |-> 0]]

-----------------------------------------------------------------------------
\* Semaphore (sem_post / sem_wait) and ThinBarrier

\* mutant: a release posts twice
SemReleaseTwice(s, n) == IF n \in DOMAIN s THEN [s EXCEPT ![n] = @ + 2] ELSE s

\* Semaphore::release on starts[n] by thread `by`: sem_post adds one.
SemRelease(s, n) == IF n \in DOMAIN s THEN [s EXCEPT ![n] = @ + 1] ELSE s

\* Semaphore::acquire can return: sem_wait succeeds only on a positive count.
SemCanAcquire(s, n) == n \in DOMAIN s /\ s[n] > 0

\* mutant: a wait that returns without taking the release
SemAcquireKeep(s, n) == s

\* Semaphore::acquire returns: sem_wait takes one from the count.
SemAcquire(s, n) == [s EXCEPT ![n] = @ - 1]

\* ThinBarrier::release: __sync_fetch_and_add(&started, 1), whatever n is.
BarrierRelease(v) == v + 1

\* mutant: the spin loop of acquire never waits
BarrierNoWait(v, n) == TRUE

\* ThinBarrier::acquire(n) spins while (started < n).
BarrierPassed(v, n) == ~(v < n)

\* mutant: reset leaves one signal in the counter
BarrierResetOne == 0 + 1

\* ThinBarrier::reset
BarrierReset == 0

\* the releases of one operation, by releasing thread
NoteRelease(r, n, by) == [r EXCEPT ![n][by] = @ + 1]

-----------------------------------------------------------------------------
\* Init: the pool is a function-local static (getSystemThreadPool), so its
\* storage is zero before the constructor runs: ThinBarrier's constructor
\* ignores its argument and `starting` has no initializer, both start at 0.
\* The constructor's initializer list sets shutdown, workBegin and workEnd.

InitPool ==
  /\ maxThreads \in 1 .. MaxThreads
  /\ i0 = 0
  /\ reqNum = 0 /\ num = 0 /\ begin = 0 /\ end = 0
  /\ started = 0
  /\ shutdown = FALSE
  /\ starting = 0
  /\ workBegin = 0 /\ workEnd = 0
  /\ starts = << >>
  /\ freed = FALSE
  /\ next = 0
  /\ pending = 0
  /\ ids = << >>
  /\ pc = [t \in Threads |-> "none"]
  /\ workPtr = [t \in Threads |-> 0]
  /\ workEndL = [t \in Threads |-> 0]
  /\ joined = {}
  /\ sampling = {}
  /\ round = 0
  /\ woken = {}
  /\ execs = NoExecs
  /\ rel = NoRel
  /\ bound = [t \in Threads |-> 0]

\* the first call of getSystemThreadPool has entered the constructor
InitFirstCall == InitPool /\ pc0 = "c_init" /\ built = 1 /\ handed = {}

\* Init: the constructor begins, in an environment that sets neither variable
Init == InitFirstCall /\ doNotBindThreads = FALSE /\ doNotBindMain = FALSE

-----------------------------------------------------------------------------
\* initThread (lines 108-118), for thread 0 and for the spawned threads

\* mutant: the main thread's variable is not looked at
BindsAnyThread(tid) == ~doNotBindThreads

\* the two tests of lines 112-113: initThread(tid) calls bindThreadToProcessor
Binds(tid) == ~doNotBindThreads /\ (tid # 0 \/ ~doNotBindMain)

\* lines 112-114 by thread tid
Bind(tid) == [bound EXCEPT ![tid] = IF Binds(tid) THEN @ + 1 ELSE @]

\* initTID, initPTS and the binding, lines 110-114, by thread 0
CtorInitThread ==
  /\ pc0 = "c_init"
  /\ bound' = Bind(0)
  /\ pc0' = "c_ready"
  /\ UNCHANGED << outer, i0, args, started, shutdown, starting, descr,
                  starts, freed, spawn, pc, locals, joined, sampling, ghost >>

\* started.release(), line 117, by thread 0
CtorReady ==
  /\ pc0 = "c_ready"
  /\ started' = BarrierRelease(started)
  /\ pc0' = "c_alloc"
  /\ UNCHANGED << outer, bound, i0, args, shutdown, starting, descr,
                  starts, freed, spawn, pc, locals, joined, sampling, ghost >>

\* the position after the constructor's loop test  i < maxThreads
AfterSpawn(i) == IF i < maxThreads THEN "c_spawn" ELSE "c_wait"

\* starts = new Semaphore[maxThreads] (each count 0); threads = new pthread_t[maxThreads]
CtorAlloc ==
  /\ pc0 = "c_alloc"
  /\ starts' = [n \in 0 .. (maxThreads - 1) |-> 0]
  /\ i0' = 1
  /\ pc0' = AfterSpawn(1)
  /\ UNCHANGED << outer, bound, args, started, shutdown, starting, descr,
                  freed, spawn, pc, locals, joined, sampling, ghost >>

\* pthread_create(&threads[i], 0, &slaunch, this), lines 178-181
CtorSpawn ==
  /\ pc0 = "c_spawn"
  /\ pending' = pending + 1
  /\ i0' = i0 + 1
  /\ pc0' = AfterSpawn(i0 + 1)
  /\ UNCHANGED << outer, bound, args, started, shutdown, starting, descr,
                  starts, freed, next, ids, pc, locals, joined, sampling, ghost >>

\* mutant: the constructor does not count thread 0's own signal
ReadyTargetShort == maxThreads - 1

\* the count the constructor waits for: started.acquire(maxThreads), line 182
ReadyTarget == maxThreads

\* started.acquire(maxThreads), line 182: the constructor returns
CtorWait ==
  /\ pc0 = "c_wait"
  /\ BarrierPassed(started, ReadyTarget)
  /\ pc0' = "idle"
  /\ UNCHANGED << outer, bound, i0, args, started, shutdown, starting, descr,
                  starts, freed, spawn, pc, locals, joined, sampling, ghost >>

\* mutant: the id is the value of next before the increment
FetchAndAdd(v) == v

\* __sync_add_and_fetch(&next, 1): the new value of next, which is the id
AddAndFetch(v) == v + 1

\* slaunch, lines 160-162: a created thread draws its id
Slaunch ==
  /\ pending > 0
  /\ LET tid == AddAndFetch(next) IN
       /\ next' = next + 1
       /\ ids' = Append(ids, tid)
       /\ pc' = [t \in Threads |-> IF t = tid THEN "init" ELSE pc[t]]
  /\ pending' = pending - 1
  /\ UNCHANGED << outer, bound, pc0, i0, args, started, shutdown, starting,
                  descr, starts, freed, locals, joined, sampling, ghost >>

\* mutant: a spawned thread goes on to its ready signal without binding
InitThreadUnbound(t) ==
  /\ pc[t] = "init"
  /\ pc' = [pc EXCEPT ![t] = "ready"]
  /\ UNCHANGED << outer, bound, pc0, i0, args, started, shutdown, starting,
                  descr, starts, freed, spawn, locals, joined, sampling, ghost >>

\* initTID, initPTS and the binding, lines 110-114, by a spawned thread
InitThread(t) ==
  /\ pc[t] = "init"
  /\ bound' = Bind(t)
  /\ pc' = [pc EXCEPT ![t] = "ready"]
  /\ UNCHANGED << outer, pc0, i0, args, started, shutdown, starting,
                  descr, starts, freed, spawn, locals, joined, sampling, ghost >>

\* started.release(), line 117, by a spawned thread, which then enters launch
Ready(t) ==
  /\ pc[t] = "ready"
  /\ started' = BarrierRelease(started)
  /\ pc' = [pc EXCEPT ![t] = "check"]
  /\ UNCHANGED << outer, bound, pc0, i0, args, shutdown, starting,
                  descr, starts, freed, spawn, locals, joined, sampling, ghost >>

-----------------------------------------------------------------------------
\* cascade and doWork, shared by thread 0 and the workers

\* mutant: a thread wakes its successor alone, the workers form a chain
ChildInChain(tid, i) == IF i = 1 THEN tid + 1 ELSE multiple * MaxThreads + multiple

\* mutant: the children of tid are its two successors
ChildNextTo(tid, i) == tid + i

\* unsigned n = tid * multiple + i, line 123
Child(tid, i) == tid * multiple + i

\* mutant: the bound of the cascade is off by one
WakesInclusive(n) == n <= starting

\* if (n < starting), line 124
Wakes(n) == n < starting

\* one iteration of cascade's loop by thread tid: the gates and the release log after it
CascadeStarts(tid, i) ==
  IF Wakes(Child(tid, i)) THEN SemRelease(starts, Child(tid, i)) ELSE starts

CascadeRel(tid, i) ==
  IF Wakes(Child(tid, i)) THEN NoteRelease(rel, Child(tid, i), tid) ELSE rel

\* doWork's loop test  workPtr != workEndL
MoreWork(p, e) == p # e

\* doWork's locals of thread t after the loop test on (p, e): they hold p and
\* e while the loop runs and are gone (0) once doWork has returned
LocalPtr(t, p, e) == [workPtr EXCEPT ![t] = IF MoreWork(p, e) THEN p ELSE 0]
LocalEnd(t, p, e) == [workEndL EXCEPT ![t] = IF MoreWork(p, e) THEN e ELSE 0]

\* (*workPtr)() by thread t: the work item at address p is executed once
Execute(x, t, p) ==
  IF p \in Items THEN [x EXCEPT ![t][p] = @ + 1] ELSE x

-----------------------------------------------------------------------------
\* launch (lines 148-157), by the worker of id t

\* mutant: the loop test does not see the flag
CheckBlind(t) ==
  /\ pc[t] = "check"
  /\ pc' = [pc EXCEPT ![t] = "acquire"]
  /\ UNCHANGED << outer, bound, pc0, i0, args, started, shutdown, starting,
                  descr, starts, freed, spawn, locals, joined, sampling, ghost >>

\* while (!shutdown)
Check(t) ==
  /\ pc[t] = "check"
  /\ pc' = [pc EXCEPT ![t] = IF shutdown THEN "exit" ELSE "acquire"]
  /\ UNCHANGED << outer, bound, pc0, i0, args, started, shutdown, starting,
                  descr, starts, freed, spawn, locals, joined, sampling, ghost >>

\* mutant: a woken worker goes to its hook and its items without cascading
AcquireNoCascade(t) ==
  /\ pc[t] = "acquire"
  /\ SemCanAcquire(starts, t)
  /\ starts' = SemAcquire(starts, t)
  /\ pc' = [pc EXCEPT ![t] = "prefix"]
  /\ woken' = woken \cup {t}
  /\ UNCHANGED << outer, bound, pc0, i0, args, started, shutdown, starting,
                  descr, freed, spawn, locals, joined, sampling, round, execs, rel >>

\* starts[tid].acquire() returns
Acquire(t) ==
  /\ pc[t] = "acquire"
  /\ SemCanAcquire(starts, t)
  /\ starts' = SemAcquire(starts, t)
  /\ pc' = [pc EXCEPT ![t] = "casc1"]
  /\ woken' = woken \cup {t}
  /\ UNCHANGED << outer, bound, pc0, i0, args, started, shutdown, starting,
                  descr, freed, spawn, locals, joined, sampling, round, execs, rel >>

\* cascade(tid), first and second iteration
Cascade1(t) ==
  /\ pc[t] = "casc1"
  /\ starts' = CascadeStarts(t, 1)
  /\ rel' = CascadeRel(t, 1)
  /\ pc' = [pc EXCEPT ![t] = "casc2"]
  /\ UNCHANGED << outer, bound, pc0, i0, args, started, shutdown, starting,
                  descr, freed, spawn, locals, joined, sampling, round, woken, execs >>

\* mutant: the second iteration releases the first child again
Cascade2Repeat(t) ==
  /\ pc[t] = "casc2"
  /\ starts' = CascadeStarts(t, 1)
  /\ rel' = CascadeRel(t, 1)
  /\ pc' = [pc EXCEPT ![t] = "prefix"]
  /\ UNCHANGED << outer, bound, pc0, i0, args, started, shutdown, starting,
                  descr, freed, spawn, locals, joined, sampling, round, woken, execs >>

Cascade2(t) ==
  /\ pc[t] = "casc2"
  /\ starts' = CascadeStarts(t, 2)
  /\ rel' = CascadeRel(t, 2)
  /\ pc' = [pc EXCEPT ![t] = "prefix"]
  /\ UNCHANGED << outer, bound, pc0, i0, args, started, shutdown, starting,
                  descr, freed, spawn, locals, joined, sampling, round, woken, execs >>

\* prefixThreadWork(tid), line 152
BeginSampling(S, t) == IF t # 0 THEN S \cup {t} ELSE S

\* mutant: the suffix hook does nothing
EndSamplingNever(S, t) == S

\* suffixThreadWork(tid), line 154
EndSampling(S, t) == IF t # 0 THEN S \ {t} ELSE S

\* The hooks touch nothing but the calling thread's sampling, so each is taken
\* in one step with the shared access next to it: the prefix hook with
\* doWork's reads of the descriptor, the suffix hook with the loop test that
\* ends doWork.
\* prefixThreadWork(tid), then doWork, lines 130-132: the descriptor is read
\* into the locals; with no work item doWork returns and suffixThreadWork runs
Prefix(t) ==
  /\ pc[t] = "prefix"
  /\ workPtr' = LocalPtr(t, workBegin, workEnd)
  /\ workEndL' = LocalEnd(t, workBegin, workEnd)
  /\ sampling' = IF MoreWork(workBegin, workEnd)
                   THEN BeginSampling(sampling, t)
                   ELSE EndSampling(BeginSampling(sampling, t), t)
  /\ pc' = [pc EXCEPT ![t] = IF MoreWork(workBegin, workEnd) THEN "work" ELSE "signal"]
  /\ UNCHANGED << outer, bound, pc0, i0, args, started, shutdown, starting,
                  descr, starts, freed, spawn, joined, ghost >>

\* doWork, lines 132-135: one work item is called and workPtr advances; after
\* the last one doWork returns and suffixThreadWork runs
Work(t) ==
  /\ pc[t] = "work"
  /\ execs' = Execute(execs, t, workPtr[t])
  /\ workPtr' = LocalPtr(t, workPtr[t] + 1, workEndL[t])
  /\ workEndL' = LocalEnd(t, workPtr[t] + 1, workEndL[t])
  /\ sampling' = IF MoreWork(workPtr[t] + 1, workEndL[t])
                   THEN sampling ELSE EndSampling(sampling, t)
  /\ pc' = [pc EXCEPT ![t] = IF MoreWork(workPtr[t] + 1, workEndL[t]) THEN "work" ELSE "signal"]
  /\ UNCHANGED << outer, bound, pc0, i0, args, started, shutdown, starting, descr,
                  starts, freed, spawn, joined, round, woken, rel >>

\* started.release(), line 155, and back to the loop test
Signal(t) ==
  /\ pc[t] = "signal"
  /\ started' = BarrierRelease(started)
  /\ pc' = [pc EXCEPT ![t] = "check"]
  /\ UNCHANGED << outer, bound, pc0, i0, args, shutdown, starting,
                  descr, starts, freed, spawn, locals, joined, sampling, ghost >>

-----------------------------------------------------------------------------
\* runInternal (lines 199-216), by thread 0

\* the counts a caller requests: below, inside and above [1, maxThreads]
Requests == 0 .. (maxThreads + 1)

\* mutant: the count is not raised to 1
ClampNoFloor(n) == Min(n, maxThreads)

\* mutant: the count is not cut to maxThreads
ClampNoCeiling(n) == Max(n, 1)

\* mutant: the count is stored as requested
ClampNone(n) == n

\* num = std::min(std::max(num, 1U), maxThreads), line 201
Clamp(n) == Min(Max(n, 1), maxThreads)

\* the call, "Sanitize num" and starting = num, lines 199-202.  Line 201
\* overwrites num, so the count the caller asked for is not kept.
Call(k, b, e) ==
  /\ pc0 = "idle"
  /\ begin' = b /\ end' = e
  /\ num' = Clamp(k)
  /\ starting' = Clamp(k)
  /\ round' = Min(round + 1, 2)
  /\ execs' = NoExecs
  /\ rel' = NoRel
  /\ woken' = {}
  /\ pc0' = "r_begin"
  /\ UNCHANGED << outer, bound, i0, started, shutdown, descr, starts, freed,
                  spawn, pc, locals, joined, sampling >>

Run(k, b, e) == Call(k, b, e) /\ reqNum' = reqNum

\* the same call, with the count the caller asked for noted beside the state
RunNoted(k, b, e) == Call(k, b, e) /\ reqNum' = k

\* workBegin = begin, line 204
RunBegin ==
  /\ pc0 = "r_begin"
  /\ workBegin' = begin
  /\ pc0' = "r_end"
  /\ UNCHANGED << outer, bound, i0, args, started, shutdown, starting, workEnd,
                  starts, freed, spawn, pc, locals, joined, sampling, ghost >>

\* mutant: the cascade begins without the reset of the counter
RunEndNoReset ==
  /\ pc0 = "r_end"
  /\ workEnd' = end
  /\ pc0' = "r_casc1"
  /\ UNCHANGED << outer, bound, i0, args, started, shutdown, starting, workBegin,
                  starts, freed, spawn, pc, locals, joined, sampling, ghost >>

\* workEnd = end, line 205
RunEnd ==
  /\ pc0 = "r_end"
  /\ workEnd' = end
  /\ pc0' = "r_reset"
  /\ UNCHANGED << outer, bound, i0, args, started, shutdown, starting, workBegin,
                  starts, freed, spawn, pc, locals, joined, sampling, ghost >>

\* started.reset(), line 208
RunReset ==
  /\ pc0 = "r_reset"
  /\ started' = BarrierReset
  /\ pc0' = "r_casc1"
  /\ UNCHANGED << outer, bound, i0, args, shutdown, starting, descr,
                  starts, freed, spawn, pc, locals, joined, sampling, ghost >>

\* cascade(0), line 209, first and second iteration
RunCascade1 ==
  /\ pc0 = "r_casc1"
  /\ starts' = CascadeStarts(0, 1)
  /\ rel' = CascadeRel(0, 1)
  /\ pc0' = "r_casc2"
  /\ UNCHANGED << outer, bound, i0, args, started, shutdown, starting, descr,
                  freed, spawn, pc, locals, joined, sampling, round, woken, execs >>

RunCascade2 ==
  /\ pc0 = "r_casc2"
  /\ starts' = CascadeStarts(0, 2)
  /\ rel' = CascadeRel(0, 2)
  /\ pc0' = "r_load"
  /\ UNCHANGED << outer, bound, i0, args, started, shutdown, starting, descr,
                  freed, spawn, pc, locals, joined, sampling, round, woken, execs >>

\* doWork() by thread 0, line 211: the descriptor is read into the locals
\* mutant: thread 0 signals the counter for its own share
RunLoadSignals ==
  /\ pc0 = "r_load"
  /\ workPtr' = LocalPtr(0, workBegin, workEnd)
  /\ workEndL' = LocalEnd(0, workBegin, workEnd)
  /\ started' = BarrierRelease(started)
  /\ pc0' = IF MoreWork(workBegin, workEnd) THEN "r_work" ELSE "r_wait"
  /\ UNCHANGED << outer, bound, i0, args, shutdown, starting, descr,
                  starts, freed, spawn, pc, joined, sampling, ghost >>

RunLoad ==
  /\ pc0 = "r_load"
  /\ workPtr' = LocalPtr(0, workBegin, workEnd)
  /\ workEndL' = LocalEnd(0, workBegin, workEnd)
  /\ pc0' = IF MoreWork(workBegin, workEnd) THEN "r_work" ELSE "r_wait"
  /\ UNCHANGED << outer, bound, i0, args, started, shutdown, starting, descr,
                  starts, freed, spawn, pc, joined, sampling, ghost >>

\* doWork() by thread 0: one work item is called and workPtr advances
RunWork ==
  /\ pc0 = "r_work"
  /\ execs' = Execute(execs, 0, workPtr[0])
  /\ workPtr' = LocalPtr(0, workPtr[0] + 1, workEndL[0])
  /\ workEndL' = LocalEnd(0, workPtr[0] + 1, workEndL[0])
  /\ pc0' = IF MoreWork(workPtr[0] + 1, workEndL[0]) THEN "r_work" ELSE "r_wait"
  /\ UNCHANGED << outer, bound, i0, args, started, shutdown, starting, descr,
                  starts, freed, spawn, pc, joined, sampling, round, woken, rel >>

\* mutant: the initiator waits for a signal of its own, which nobody sends
WaitForAll(n) == n

\* mutant: the initiator waits for one signal too few
WaitForEarly(n) == n - 2

\* mutant: the initiator waits for one signal at most
WaitForOne(n) == Min(n - 1, 1)

\* mutant: the initiator waits for half of the signals
WaitForHalf(n) == n \div 2

\* the count runInternal waits for: started.acquire(num - 1), line 213
WaitFor(n) == n - 1

RunWait ==
  /\ pc0 = "r_wait"
  /\ BarrierPassed(started, WaitFor(num))
  /\ pc0' = "r_clear"
  /\ UNCHANGED << outer, bound, i0, args, started, shutdown, starting, descr,
                  starts, freed, spawn, pc, locals, joined, sampling, ghost >>

\* mutant: only workBegin is cleared
RunClearHalf ==
  /\ pc0 = "r_clear"
  /\ workBegin' = 0
  /\ pc0' = "idle"
  /\ UNCHANGED << outer, bound, i0, args, started, shutdown, starting, workEnd,
                  starts, freed, spawn, pc, locals, joined, sampling, ghost >>

\* workBegin = workEnd = 0, line 215: runInternal returns
RunClear ==
  /\ pc0 = "r_clear"
  /\ workBegin' = 0 /\ workEnd' = 0
  /\ pc0' = "idle"
  /\ UNCHANGED << outer, bound, i0, args, started, shutdown, starting,
                  starts, freed, spawn, pc, locals, joined, sampling, ghost >>

-----------------------------------------------------------------------------
\* ~ThreadPool_pthread (lines 185-197), by thread 0

\* mutant: the destructor does not join before it frees
AfterJoinNone(i) == "d_free"

\* the position after the loop test  i < maxThreads  of the join loop, line 191
AfterJoin(i) == IF i < maxThreads THEN "d_join" ELSE "d_free"

\* mutant: the destructor releases gate 1 alone and leaves the rest to the cascade
AfterReleaseOne(i) == IF i < Min(2, maxThreads) THEN "d_release" ELSE AfterJoin(1)

\* mutant: the destructor releases no gate before it joins
AfterReleaseNone(i) == AfterJoin(1)

\* the position after the loop test  i < maxThreads  of the release loop,
\* line 189; when it fails the join loop begins with its own test at i = 1
AfterRelease(i) == IF i < maxThreads THEN "d_release" ELSE AfterJoin(1)

\* shutdown = true, line 186
Destroy ==
  /\ pc0 = "idle"
  /\ shutdown' = TRUE
  /\ rel' = NoRel
  /\ woken' = {}
  /\ pc0' = "d_clear"
  /\ UNCHANGED << outer, bound, i0, args, started, starting, descr, starts, freed,
                  spawn, pc, locals, joined, sampling, round, execs >>

\* workBegin = workEnd = 0, line 187
DestroyClear ==
  /\ pc0 = "d_clear"
  /\ workBegin' = 0 /\ workEnd' = 0
  /\ i0' = 1
  /\ pc0' = AfterRelease(1)
  /\ UNCHANGED << outer, bound, args, started, shutdown, starting,
                  starts, freed, spawn, pc, locals, joined, sampling, ghost >>

\* starts[i].release(), lines 189-190; after the last one the join loop starts at i = 1
DestroyRelease ==
  /\ pc0 = "d_release"
  /\ starts' = SemRelease(starts, i0)
  /\ rel' = NoteRelease(rel, i0, 0)
  /\ i0' = IF i0 + 1 < maxThreads THEN i0 + 1 ELSE 1
  /\ pc0' = AfterRelease(i0 + 1)
  /\ UNCHANGED << outer, bound, args, started, shutdown, starting, descr, freed,
                  spawn, pc, locals, joined, sampling, round, woken, execs >>

\* pthread_join(threads[i], NULL) returns, lines 191-194.  threads[i] is the
\* thread created i-th, and which id it drew was the scheduler's choice, seen
\* by nothing else: the i-th join returns once the worker of some id not
\* joined yet has left launch.
DestroyJoin(t) ==
  /\ pc0 = "d_join"
  /\ t \in Workers \ joined
  /\ pc[t] = "exit"
  /\ joined' = joined \cup {t}
  /\ i0' = i0 + 1
  /\ pc0' = AfterJoin(i0 + 1)
  /\ UNCHANGED << outer, bound, args, started, shutdown, starting, descr, starts,
                  freed, spawn, pc, locals, sampling, ghost >>

\* delete [] starts; delete [] threads, lines 195-196
DestroyFree ==
  /\ pc0 = "d_free"
  /\ freed' = TRUE
  /\ pc0' = "dead"
  /\ UNCHANGED << outer, bound, i0, args, started, shutdown, starting, descr, starts,
                  spawn, pc, locals, joined, sampling, ghost >>

-----------------------------------------------------------------------------

Constructor == CtorInitThread \/ CtorReady \/ CtorAlloc \/ CtorSpawn \/ CtorWait

\* a call of runInternal: the caller's array of commands lies at address 1
\* and holds end - 1 of them, none when end = begin
Invoke == \E k \in Requests : \E e \in Pointers : Run(k, 1, e)

InvokeNoted == \E k \in Requests : \E e \in Pointers : RunNoted(k, 1, e)

\* a call for one or two threads, with up to MaxItems + 1 commands
InvokePair == \E k \in 1 .. 2 : \E e \in LongPointers : Run(k, 1, e)

Initiator ==
  RunBegin \/ RunEnd \/ RunReset \/ RunCascade1 \/ RunCascade2 \/ RunLoad
    \/ RunWork \/ RunWait \/ RunClear

Destructor ==
  Destroy \/ DestroyClear \/ DestroyRelease \/ (\E t \in Workers : DestroyJoin(t))
    \/ DestroyFree

Startup(t) == InitThread(t) \/ Ready(t)

Launch(t) ==
  Check(t) \/ Acquire(t) \/ Cascade1(t) \/ Cascade2(t) \/ Prefix(t)
    \/ Work(t) \/ Signal(t)

Worker == \E t \in Workers : Startup(t) \/ Launch(t)

Next == Constructor \/ Slaunch \/ Invoke \/ Initiator \/ Destructor \/ Worker

Spec == Init /\ [][Next]_vars

\* the same pool, each call noting the count it was asked for
NextNoted == Constructor \/ Slaunch \/ InvokeNoted \/ Initiator \/ Destructor \/ Worker

SpecNoted == Init /\ [][NextNoted]_vars

\* the same pool, called for at most two threads with longer sequences
NextPair == Constructor \/ Slaunch \/ InvokePair \/ Initiator \/ Destructor \/ Worker

SpecPair == Init /\ [][NextPair]_vars

\* Every thread of the pool is an OS thread that the scheduler keeps running:
\* thread 0 inside the constructor, runInternal and the destructor, a created
\* thread until it has drawn its id, and each worker.  Whether and when some
\* caller calls runInternal or destroys the pool is not assumed.  Fairness
\* asks only that the pool's threads do not all stand still while one of them
\* can take a step, which fairness to each thread implies.
PoolStep ==
  \/ Constructor
  \/ Slaunch
  \/ Initiator
  \/ DestroyClear \/ DestroyRelease \/ (\E t \in Workers : DestroyJoin(t)) \/ DestroyFree
  \/ Worker

Fairness == WF_vars(PoolStep)

FairSpec == Spec /\ Fairness

-----------------------------------------------------------------------------
\* The construction of the pool in any environment: each of the two variables
\* that initThread looks at set or not.  From the end of construction on
\* nothing calls initThread, so the specification ends there.

InitAnyEnv == InitFirstCall /\ doNotBindThreads \in BOOLEAN /\ doNotBindMain \in BOOLEAN

NextConstruct == Constructor \/ Slaunch \/ (\E t \in Workers : Startup(t))

SpecConstruct == InitAnyEnv /\ [][NextConstruct]_vars

-----------------------------------------------------------------------------
\* getSystemThreadPool (lines 221-225).  `pool` is a static of the function:
\* the first call that reaches its declaration runs the constructor, every
\* call returns a reference to that one object.

\* no call has been made: the static is not constructed; any environment
InitUncalled ==
  /\ InitPool /\ pc0 = "uncalled" /\ built = 0 /\ handed = {}
  /\ doNotBindThreads \in BOOLEAN /\ doNotBindMain \in BOOLEAN

\* the first call reaches the declaration of line 223 and enters the constructor
GetPoolFirst ==
  /\ pc0 = "uncalled"
  /\ built = 0
  /\ built' = built + 1
  /\ pc0' = "c_init"
  /\ UNCHANGED << maxThreads, doNotBindThreads, doNotBindMain, handed, bound, i0,
                  args, started, shutdown, starting, descr, starts, freed, spawn,
                  pc, locals, joined, sampling, ghost >>

\* mutant: a call constructs the pool anew, as for a local that is not static
GetPoolRebuilds ==
  /\ pc0 = "idle"
  /\ built' = built + 1
  /\ pc0' = "c_init"
  /\ UNCHANGED << maxThreads, doNotBindThreads, doNotBindMain, handed, bound, i0,
                  args, started, shutdown, starting, descr, starts, freed, spawn,
                  pc, locals, joined, sampling, ghost >>

\* return pool, line 224: the first call after its constructor has returned,
\* or a later call, which passes the declaration without constructing
GetPool ==
  /\ pc0 = "idle"
  /\ built > 0
  /\ handed' = handed \cup {built}
  /\ UNCHANGED << maxThreads, doNotBindThreads, doNotBindMain, built, bound, pc0, i0,
                  args, started, shutdown, starting, descr, starts, freed, spawn,
                  pc, locals, joined, sampling, ghost >>

NextGetPool ==
  GetPoolFirst \/ GetPool \/ Constructor \/ Slaunch \/ (\E t \in Workers : Startup(t))

SpecGetPool == InitUncalled /\ [][NextGetPool]_vars

-----------------------------------------------------------------------------
\* The pool with failing primitives.  Every call of sem_init, sem_post,
\* sem_wait, sem_destroy, pthread_create and pthread_join may fail; the code
\* tests each return value and calls GALOIS_DIE("PTHREAD"), except that a
\* sem_wait that fails with errno EINTR is called again (line 78).

\* the calls of GALOIS_DIE, by the primitive whose failure leads to them
DieSites ==
  {"died_sem_init", "died_sem_destroy", "died_sem_post", "died_sem_wait",
   "died_create", "died_join"}

\* GALOIS_DIE has been called
Aborted == pc0 \in DieSites

\* GALOIS_DIE at one of its call sites: the process ends there, and with it
\* its threads and its memory
Die(site) ==
  /\ pc0' = site
  /\ pc' = [t \in Threads |-> "none"]
  /\ i0' = 0
  /\ reqNum' = 0 /\ num' = 0 /\ begin' = 0 /\ end' = 0
  /\ started' = 0 /\ shutdown' = FALSE /\ starting' = 0
  /\ workBegin' = 0 /\ workEnd' = 0
  /\ starts' = << >> /\ freed' = FALSE
  /\ next' = 0 /\ pending' = 0 /\ ids' = << >>
  /\ workPtr' = [t \in Threads |-> 0]
  /\ workEndL' = [t \in Threads |-> 0]
  /\ joined' = {} /\ sampling' = {}
  /\ round' = 0 /\ woken' = {} /\ execs' = NoExecs /\ rel' = NoRel
  /\ bound' = [t \in Threads |-> 0]
  /\ UNCHANGED outer

\* sem_init fails in new Semaphore[maxThreads], lines 57-58 from line 175
SemInitFails == pc0 = "c_alloc" /\ Die("died_sem_init")

\* mutant: a failed pthread_create is passed over and the loop goes on
CreateFailsSkipped ==
  /\ pc0 = "c_spawn"
  /\ i0' = i0 + 1
  /\ pc0' = AfterSpawn(i0 + 1)
  /\ UNCHANGED << outer, bound, args, started, shutdown, starting, descr,
                  starts, freed, spawn, pc, locals, joined, sampling, ghost >>

\* pthread_create fails, lines 179-180
CreateFails == pc0 = "c_spawn" /\ Die("died_create")

\* thread 0 is about to call sem_post: in cascade(0) or in the destructor's loop
Posting0 ==
  \/ pc0 = "r_casc1" /\ Wakes(Child(0, 1))
  \/ pc0 = "r_casc2" /\ Wakes(Child(0, 2))
  \/ pc0 = "d_release"

\* worker t is about to call sem_post in cascade(t)
Posting(t) ==
  \/ pc[t] = "casc1" /\ Wakes(Child(t, 1))
  \/ pc[t] = "casc2" /\ Wakes(Child(t, 2))

\* sem_post fails, lines 69-70, called by thread 0 or by a worker
PostFails0 == Posting0 /\ Die("died_sem_post")
PostFails(t) == Posting(t) /\ Die("died_sem_post")

\* sem_wait fails with an errno other than EINTR, lines 78-80
WaitFails(t) == pc[t] = "acquire" /\ Die("died_sem_wait")

\* sem_wait, blocked on a gate without a release, is interrupted by a signal:
\* it returns -1 with errno EINTR, line 78
WaitInterrupted(t) ==
  /\ pc[t] = "acquire"
  /\ ~SemCanAcquire(starts, t)
  /\ pc' = [pc EXCEPT ![t] = "eintr"]
  /\ UNCHANGED << outer, bound, pc0, i0, args, started, shutdown, starting,
                  descr, starts, freed, spawn, locals, joined, sampling, ghost >>

\* mutant: the interrupted wait returns to launch as if the gate had been released
WaitRetryWakes(t) ==
  /\ pc[t] = "eintr"
  /\ pc' = [pc EXCEPT ![t] = "casc1"]
  /\ woken' = woken \cup {t}
  /\ UNCHANGED << outer, bound, pc0, i0, args, started, shutdown, starting,
                  descr, starts, freed, spawn, locals, joined, sampling,
                  round, execs, rel >>

\* the loop of line 78 calls sem_wait again
WaitRetry(t) ==
  /\ pc[t] = "eintr"
  /\ pc' = [pc EXCEPT ![t] = "acquire"]
  /\ UNCHANGED << outer, bound, pc0, i0, args, started, shutdown, starting,
                  descr, starts, freed, spawn, locals, joined, sampling, ghost >>

\* pthread_join fails, lines 192-193
JoinFails == pc0 = "d_join" /\ Die("died_join")

\* sem_destroy fails in delete [] starts, lines 62-63 from line 195
SemDestroyFails == pc0 = "d_free" /\ Die("died_sem_destroy")

Faults ==
  \/ SemInitFails \/ CreateFails \/ PostFails0 \/ JoinFails \/ SemDestroyFails
  \/ \E t \in Workers : PostFails(t) \/ WaitFails(t) \/ WaitInterrupted(t) \/ WaitRetry(t)

NextFaults == Next \/ Faults

\* signals delivered to workers blocked in sem_wait, every primitive succeeding
Interrupts == \E t \in Workers : WaitInterrupted(t) \/ WaitRetry(t)

NextInterrupts == Next \/ Interrupts

SpecInterrupts == Init /\ [][NextInterrupts]_vars

SpecFaults == Init /\ [][NextFaults]_vars

-----------------------------------------------------------------------------
\* Vocabulary of the properties

\* thread 0 is inside runInternal
InRun ==
  pc0 \in {"r_begin", "r_end", "r_reset", "r_casc1", "r_casc2", "r_load",
           "r_work", "r_wait", "r_clear"}

\* runInternal has returned and neither a next call nor the destructor has begun
Returned == pc0 = "idle" /\ round > 0

\* the constructor has returned and no call has been made yet
Constructed == pc0 = "idle" /\ round = 0

\* a worker between the return of its gate wait and its barrier signal
Active(t) == pc[t] \in {"casc1", "casc2", "prefix", "work", "signal"}

\* a worker woken for a round (not by the destructor) that has not signalled yet
InRound(t) == Active(t) /\ ~shutdown

\* a worker inside launch and outside a round: at the loop test or at its gate
Resting(t) == pc[t] \in {"check", "acquire"}

\* the addresses of the work items of the current call
Published == begin .. (end - 1)

\* the work items thread t has executed in the current call, as counts
Ran(t, c) == \A a \in Items : execs[t][a] = IF a \in Published THEN c ELSE 0

RECURSIVE SumOver(_, _)
SumOver(f, S) ==
  IF S = {} THEN 0
  ELSE LET x == CHOOSE y \in S : TRUE IN f[x] + SumOver(f, S \ {x})

\* what a shared counter incremented by every work item has gained in the current call
Executions == SumOver([t \in Threads |-> SumOver(execs[t], Items)], Threads)

\* the releases of gate n in the current operation
Releases(n) == SumOver(rel[n], Threads)

-----------------------------------------------------------------------------
\* C1: when run(k, W) has returned, every worker with id below the count has
\* executed every item of W exactly once in that call and no other worker has
\* executed any, so a shared counter incremented by each item has gained
\* exactly count * |W| (exactly k for the one-item sequence); the count is k
\* itself for every k in 1 .. maxThreads.
C1_RunPostcondition ==
  Returned =>
    /\ \A t \in Threads : Ran(t, IF t < num THEN 1 ELSE 0)
    /\ Executions = num * (end - begin)
    /\ num \in 1 .. maxThreads
    /\ \A k \in 1 .. maxThreads : Clamp(k) = k

C1_Witness ==
  /\ Returned
  /\ maxThreads = 4 /\ num = 4
  /\ end - begin = 1
  /\ Executions = 4
  /\ execs[3][1] = 1

\* C2: during an invocation no worker with id >= starting has its gate
\* released, is woken or executes a work item, and when the initiator has passed
\* its wait the workers that ran in the round are exactly 0 .. starting-1.
C2_OnlyBelowStarting ==
  InRun =>
    /\ \A t \in Threads : t >= starting =>
         /\ starts[t] = 0
         /\ Releases(t) = 0
         /\ t \notin woken
         /\ Resting(t)
         /\ Ran(t, 0)
    /\ starts[0] = 0 /\ Releases(0) = 0
    /\ woken \subseteq 1 .. (starting - 1)
    /\ (pc0 = "r_clear" => woken = 1 .. (starting - 1))

C2_Witness ==
  /\ pc0 = "r_clear"
  /\ round = 2
  /\ maxThreads = 4 /\ starting = 3
  /\ woken = {1, 2}
  /\ execs[2][1] = 1 /\ execs[3][1] = 0

\* C3: with every thread scheduled fairly (work items are single steps, so
\* they terminate), every call of run, whatever count was requested and
\* whatever the work-item sequence, eventually returns.
C3_RunReturns == InRun ~> Returned

C3_Witness ==
  /\ Returned
  /\ round = 2
  /\ maxThreads = 4 /\ num = 4
  /\ begin = end
  /\ woken = {1, 2, 3}

\* C4: executions of different rounds never overlap: a worker is between its
\* wake-up and its barrier signal only inside the call that woke it (it was
\* woken since that call began, and the call has neither returned nor passed
\* its wait), and what it executes is the sequence that call published; so
\* when a next call begins, every execution of the call before has finished,
\* and nothing of the new call is executed before its cascade has begun.
C4_RoundsDoNotOverlap ==
  /\ \A t \in Workers : pc[t] = "work" => ~shutdown
  /\ \A t \in Workers : InRound(t) =>
       /\ pc0 \in {"r_casc2", "r_load", "r_work", "r_wait"}
       /\ t \in woken
       /\ workBegin = begin /\ workEnd = end
       /\ (pc[t] = "work" => workPtr[t] \in Published /\ workEndL[t] = end)
  /\ (pc0 = "r_work" => workPtr[0] \in Published /\ workEndL[0] = end)
  /\ (pc0 \in {"idle", "r_begin", "r_end", "r_reset"} => \A t \in Workers : ~Active(t))
  /\ (pc0 \in {"r_begin", "r_end", "r_reset", "r_casc1"} => \A t \in Threads : Ran(t, 0))

\* in the second round a worker executes while a worker of the first round
\* has not yet reached its gate again
C4_Witness ==
  /\ round = 2
  /\ maxThreads = 4
  /\ pc[1] = "work" /\ 1 \in woken
  /\ pc[2] = "check" /\ 2 \notin woken /\ 2 < starting

\* C5: no activation leaks between rounds: when run has returned no gate holds
\* a pending release; a release pending during a call was made in that call, at
\* most once and for a worker below the count; and when the call has returned
\* the workers woken in it are exactly 1 .. count-1, each having executed the
\* items of that call once.
C5_NoLeakedActivation ==
  /\ (pc0 = "idle" => \A t \in Threads : starts[t] = 0)
  /\ (InRun => \A t \in Threads :
        /\ starts[t] + (IF t \in woken THEN 1 ELSE 0) = Releases(t)
        /\ Releases(t) <= 1)
  /\ (Returned => /\ woken = 1 .. (num - 1)
                  /\ \A t \in woken : Ran(t, 1)
                  /\ \A t \in Workers \ woken : Ran(t, 0))

C5_Witness ==
  /\ Returned
  /\ round = 2
  /\ maxThreads = 4 /\ num = 2
  /\ woken = {1}
  /\ execs[1][1] = 1 /\ execs[2][1] = 0

\* the rendezvous counter's settled value: maxThreads after construction,
\* starting - 1 after a run
Settled == IF round = 0 THEN maxThreads ELSE starting - 1

\* C6 as stated: between invocations every spawned worker is blocked on its
\* own gate, the counter is settled and the descriptor is cleared.
C6_AllParked ==
  pc0 = "idle" =>
    /\ \A t \in Workers : pc[t] = "acquire" /\ starts[t] = 0
    /\ started = Settled
    /\ workBegin = 0 /\ workEnd = 0

\* C6 amended: between invocations every spawned worker has signalled and is
\* at its gate or at the loop test before it, executing nothing; no gate
\* holds a release; the counter is settled and the descriptor is cleared.
C6_Quiescent ==
  pc0 = "idle" =>
    /\ \A t \in Workers :
         /\ Resting(t)
         /\ starts[t] = 0
         /\ t \notin sampling
         /\ workPtr[t] = 0 /\ workEndL[t] = 0
    /\ started = Settled
    /\ workBegin = 0 /\ workEnd = 0

C6_Witness ==
  /\ Returned
  /\ maxThreads = 4 /\ starting = 4
  /\ pc[1] = "acquire" /\ pc[2] = "check" /\ pc[3] = "check"
  /\ started = 3

\* C7, in two parts.  A step that changes the descriptor is a step of thread 0
\* alone, taken while no worker is between its wake-up and its barrier signal.
\* From the reset of the counter until the initiator has passed its wait, and
\* while any worker of the round is active, the descriptor holds the values
\* passed to the call; it is (0, 0) once run has returned.
C7_DescriptorWrite ==
  (workBegin' # workBegin \/ workEnd' # workEnd) =>
    /\ pc0' # pc0
    /\ pc' = pc
    /\ \A t \in Workers : ~Active(t)

C7_DescriptorStable ==
  /\ (pc0 \in {"r_reset", "r_casc1", "r_casc2", "r_load", "r_work", "r_wait", "r_clear"}
        => workBegin = begin /\ workEnd = end)
  /\ (\A t \in Workers : InRound(t) => workBegin = begin /\ workEnd = end)
  /\ (pc0 = "idle" => workBegin = 0 /\ workEnd = 0)

\* C7: every step obeys the write rule and every state the stability rule
C7_DescriptorFrame == [][C7_DescriptorWrite]_vars /\ []C7_DescriptorStable

C7_Witness ==
  /\ pc0 = "r_wait"
  /\ workBegin = 1 /\ workEnd = 2
  /\ maxThreads = 4
  /\ pc[3] = "work" /\ workPtr[3] = 1
  /\ execs[0][1] = 1

\* C8: a call that requests 0 threads runs as a call that requests 1: the
\* count and starting are 1, as Clamp makes them for a request of 1; during
\* the call no gate is released and no worker is woken or executes; the
\* initiator is not held at its wait; and when the call has returned thread 0
\* has executed every item once.
C8_ZeroIsOne ==
  (reqNum = 0 /\ (InRun \/ Returned)) =>
    /\ num = Clamp(1) /\ starting = Clamp(1) /\ num = 1
    /\ \A t \in Threads : starts[t] = 0 /\ Releases(t) = 0
    /\ woken = {}
    /\ \A t \in Workers : Resting(t) /\ Ran(t, 0)
    /\ (pc0 = "r_wait" => BarrierPassed(started, WaitFor(num)))
    /\ (Returned => Ran(0, 1))

C8_Witness ==
  /\ Returned
  /\ reqNum = 0
  /\ maxThreads = 4
  /\ begin = 1 /\ end = 2
  /\ execs[0][1] = 1 /\ execs[1][1] = 0

\* C9: a call that requests more than maxThreads threads runs as a call that
\* requests maxThreads: the count and starting are maxThreads, as Clamp makes
\* them for a request of maxThreads, and when the call has returned every
\* worker 0 .. maxThreads-1 has been woken and has executed every item once.
\* In no state has a gate of index 0 or of index >= maxThreads been released.
C9_AboveIsMax ==
  /\ (reqNum > maxThreads /\ (InRun \/ Returned)) =>
       /\ num = Clamp(maxThreads) /\ starting = Clamp(maxThreads) /\ num = maxThreads
       /\ (Returned => woken = Workers /\ \A t \in Threads : Ran(t, 1))
  /\ \A n \in GateIdx : (n = 0 \/ n >= maxThreads) => Releases(n) = 0

C9_Witness ==
  /\ Returned
  /\ maxThreads = 4 /\ reqNum = 5
  /\ begin = 1 /\ end = 2
  /\ woken = {1, 2, 3}
  /\ Executions = 4

\* the constructor is running
InConstructor == pc0 \in {"c_init", "c_ready", "c_alloc", "c_spawn", "c_wait"}

\* the spawned threads that have signalled ready (they are inside launch)
ReadyWorkers == {t \in Workers : pc[t] \notin {"none", "init", "ready"}}

\* C10: once the constructor has returned, maxThreads - 1 threads have been
\* created, each has drawn an id and signalled ready, and thread 0 has; until
\* the first call the counter is exactly maxThreads.  With maxThreads = 1 no
\* thread is ever created and the constructor's wait does not block.
C10_ConstructionWaits ==
  /\ ~InConstructor =>
       /\ pending = 0 /\ Len(ids) = maxThreads - 1
       /\ ReadyWorkers = Workers
  /\ (Constructed => started = maxThreads /\ Cardinality(ReadyWorkers) + 1 = maxThreads)
  /\ (InConstructor => started <= maxThreads)
  /\ (maxThreads = 1 =>
        /\ pending = 0 /\ ids = << >> /\ pc0 # "c_spawn"
        /\ (pc0 = "c_wait" => BarrierPassed(started, ReadyTarget)))

C10_Witness ==
  /\ Constructed
  /\ maxThreads = 4
  /\ started = 4
  /\ Len(ids) = 3
  /\ pc[1] = "check" /\ pc[2] = "acquire" /\ pc[3] = "check"

\* the destructor has returned: every spawned thread has left launch and has
\* been joined, the gates and the thread handles are deleted
Terminated ==
  /\ pc0 = "dead"
  /\ freed
  /\ joined = Workers
  /\ \A t \in Workers : pc[t] = "exit"

\* C11: with every thread scheduled fairly, a destructor that has begun (it
\* begins only between invocations, after any number of calls of any counts
\* or none) returns: every spawned thread leaves launch, all maxThreads - 1
\* joins complete and no thread is left waiting on a gate.  A thread is
\* joined only after it has left launch, and the gates are deleted only
\* after every thread is joined.
C11_ShutdownTerminates ==
  /\ shutdown ~> Terminated
  /\ [](joined \subseteq {t \in Workers : pc[t] = "exit"})
  /\ [](freed => Terminated)

\* destroyed before any call: the workers woken by the destructor cascade
\* with starting still 0
C11_Witness ==
  /\ Terminated
  /\ maxThreads = 4
  /\ round = 0
  /\ Cardinality(joined) = 3
  /\ woken # {}

\* the initiator has passed its wait on the counter, or run has returned
PastWait == pc0 = "r_clear" \/ Returned

\* C12 as stated: run returns only after the rendezvous counter has reached
\* starting.
C12_CounterReachesStarting == PastWait => started >= starting

\* C12 amended: run returns only after the rendezvous counter has reached
\* starting - 1: the initiator sends no completion signal, it waits for one
\* signal of each other activated worker; the counter is then exactly
\* starting - 1, every worker below starting having signalled once, and it
\* has not reached starting.
C12_CounterReachesOthers ==
  PastWait =>
    /\ BarrierPassed(started, starting - 1)
    /\ started = starting - 1
    /\ starting = num
    /\ \A t \in 1 .. (starting - 1) : t \in woken /\ ~Active(t)

C12_Witness ==
  /\ pc0 = "r_clear"
  /\ maxThreads = 4 /\ starting = 4
  /\ started = 3
  /\ round = 1

\* C13 as stated: in every state of the constructed pool the activation count
\* satisfies 1 <= starting <= maxThreads.
C13_StartingInRange == ~InConstructor => starting \in 1 .. maxThreads

\* C13, what the pool keeps: starting is written by no step but the entry of
\* runInternal; from the first call on it is the clamp of the count last
\* requested, within 1 .. maxThreads; the constructor does not write it, so
\* until the first call it is the 0 of the zeroed static storage.
C13_StartingWrite == starting' # starting => pc0 = "idle" /\ pc0' = "r_begin"

C13_StartingStored ==
  /\ [][C13_StartingWrite]_vars
  /\ [](round > 0 => starting = Clamp(reqNum) /\ starting = num /\ starting \in 1 .. maxThreads)
  /\ [](round = 0 => starting = 0)

C13_Witness ==
  /\ pc0 = "r_begin"
  /\ round = 2
  /\ maxThreads = 4
  /\ reqNum = 0 /\ starting = 1

\* the ids drawn so far by spawned threads
Drawn == {ids[i] : i \in 1 .. Len(ids)}

\* C14: the ids the spawned threads draw are pairwise different and none is
\* 0; at any moment they are exactly 1 .. next, a spawned thread runs as
\* worker t exactly when t has been drawn, and none runs as worker 0; no more
\* than maxThreads - 1 threads are created, and once the constructor has
\* returned the ids drawn are exactly 1 .. maxThreads - 1.
C14_IdsDistinctDense ==
  /\ \A i, j \in 1 .. Len(ids) : i # j => ids[i] # ids[j]
  /\ 0 \notin Drawn
  /\ Drawn = 1 .. next
  /\ Len(ids) = next
  /\ next + pending <= maxThreads - 1
  /\ \A t \in Workers : pc[t] # "none" <=> t \in Drawn
  /\ pc[0] = "none"
  /\ (~InConstructor => Drawn = Workers /\ Cardinality(Drawn) = maxThreads - 1)

\* all three ids are drawn while the constructor still waits; the thread that
\* drew the last id is already in launch, the one that drew the first is not
C14_Witness ==
  /\ maxThreads = 4
  /\ pc0 = "c_wait"
  /\ Drawn = {1, 2, 3}
  /\ pc[1] = "init" /\ pc[3] = "check"

\* C15 as stated: whenever a primitive has failed the process is terminated;
\* no thread goes on to call the failed primitive again.
C15_EveryFailureTerminates == \A t \in Workers : pc[t] = "eintr" => Aborted

\* a step leaves a terminated process nowhere, and a worker whose wait was
\* interrupted does nothing but wait again, without taking a release
C15_FailureStep ==
  /\ ~Aborted
  /\ \A t \in Workers : (pc[t] = "eintr" /\ pc'[t] # "eintr") =>
        \/ Aborted'
        \/ pc'[t] = "acquire" /\ starts' = starts /\ woken' = woken

\* a pool that goes on is complete: its gates are all created, its
\* maxThreads - 1 threads are all created and, at the end of the destructor,
\* all joined
C15_NotDegraded ==
  ~Aborted =>
    /\ (pc0 \notin {"c_init", "c_ready", "c_alloc"} => DOMAIN starts = Threads)
    /\ (pc0 \notin {"c_init", "c_ready", "c_alloc", "c_spawn"} =>
          next + pending = maxThreads - 1)
    /\ (pc0 = "c_spawn" => next + pending = i0 - 1)
    /\ (pc0 \in {"d_free", "dead"} => joined = Workers)

\* C15 amended: a failure of gate creation, destruction or release, of thread
\* creation or join, or of a gate wait for a reason other than a signal,
\* terminates the process at once: nothing runs afterwards and a pool that
\* runs is never short of a gate or a thread.  A gate wait interrupted by a
\* signal is the one failure that is retried.
C15_FailureTerminates == [][C15_FailureStep]_vars /\ []C15_NotDegraded

\* the process ended in the destructor's join loop
C15_Witness == pc0 = "died_join" /\ maxThreads = 4

\* initThread(t) has passed its binding test: thread 0 in the constructor, a
\* spawned thread after it drew id t
Inited(t) == IF t = 0 THEN pc0 # "c_init" ELSE pc[t] \notin {"none", "init"}

\* the calls of bindThreadToProcessor so far if the threads of S bind
BoundAre(S) == \A t \in Threads : bound[t] = IF t \in S /\ Inited(t) THEN 1 ELSE 0

\* C16: a thread binds at most once, in initThread and so after its id is
\* assigned; with GALOIS_DO_NOT_BIND_THREADS set no thread binds; with only
\* GALOIS_DO_NOT_BIND_MAIN_THREAD set every spawned worker binds once and
\* thread 0 does not; with neither set every thread including 0 binds once.
C16_BindsOnceUnlessDisabled ==
  /\ \A t \in Threads : bound[t] <= 1
  /\ \A t \in Workers : bound[t] > 0 => t \in Drawn
  /\ (doNotBindThreads => BoundAre({}))
  /\ (~doNotBindThreads /\ doNotBindMain => BoundAre(Workers))
  /\ (~doNotBindThreads /\ ~doNotBindMain => BoundAre(Threads))

C16_Witness ==
  /\ Constructed
  /\ maxThreads = 4
  /\ ~doNotBindThreads /\ doNotBindMain
  /\ bound[0] = 0 /\ bound[1] = 1 /\ bound[2] = 1 /\ bound[3] = 1

\* C17: the first call of getSystemThreadPool enters the constructor and no
\* other call does: the pool is constructed at most once, exactly when a call
\* has been made; every call returns that one instance; and threads are
\* created once, never more than maxThreads - 1 of them.
C17_Singleton ==
  /\ built <= 1
  /\ (built = 0 <=> pc0 = "uncalled")
  /\ handed \subseteq {1}
  /\ (handed # {} => built = 1 /\ pc0 = "idle")
  /\ next + pending <= maxThreads - 1
  /\ Len(ids) = next
  /\ (pc0 = "idle" => next = maxThreads - 1)

\* calls have returned the pool, constructed once with its three threads
C17_Witness ==
  /\ handed = {1}
  /\ built = 1
  /\ maxThreads = 4
  /\ Len(ids) = 3
  /\ pc[1] = "check" /\ pc[2] = "check" /\ pc[3] = "check"

\* thread t has been activated since the last call or destroy began and has
\* left cascade
Cascaded(t) ==
  IF t = 0 THEN pc0 \in {"r_load", "r_work", "r_wait", "r_clear"} \/ Returned
  ELSE t \in woken /\ pc[t] \notin {"casc1", "casc2"}

\* C18: a cascading thread tid releases no gate but those of 2*tid+1 and
\* 2*tid+2, and none at or above starting; once it has left cascade it has
\* released each of the two that is below starting, exactly once.  So with
\* starting = 1 no gate is released and no worker is woken, and with
\* starting = maxThreads a call that has passed its wait has had every gate
\* 1 .. maxThreads-1 released, exactly once.  (Thread 0 cascades in run; the
\* releases it makes as destructor are not a cascade.)
C18_CascadeRule ==
  /\ \A tid \in Threads : \A n \in GateIdx :
        (tid # 0 \/ InRun \/ Returned) =>
          /\ (rel[n][tid] > 0 => n \in {2 * tid + 1, 2 * tid + 2} /\ n < starting)
          /\ (Cascaded(tid) /\ n \in {2 * tid + 1, 2 * tid + 2} =>
                rel[n][tid] = IF n < starting THEN 1 ELSE 0)
  /\ (InRun \/ Returned) =>
        /\ (starting = 1 => woken = {} /\ \A n \in GateIdx : Releases(n) = 0)
        /\ (starting = maxThreads /\ PastWait => \A n \in Workers : Releases(n) = 1)

C18_Witness ==
  /\ pc0 = "r_wait"
  /\ maxThreads = 4 /\ starting = 4
  /\ rel[1][0] = 1 /\ rel[2][0] = 1 /\ rel[3][1] = 1
  /\ pc[3] = "prefix"

\* the initiator's positions in the order of lines 202-215, each with the
\* positions that may follow it
RunOrder ==
  [ idle    |-> {"r_begin"},
    r_begin |-> {"r_end"},
    r_end   |-> {"r_reset"},
    r_reset |-> {"r_casc1"},
    r_casc1 |-> {"r_casc2"},
    r_casc2 |-> {"r_load"},
    r_load  |-> {"r_work", "r_wait"},
    r_work  |-> {"r_work", "r_wait"},
    r_wait  |-> {"r_clear"},
    r_clear |-> {"idle"} ]

\* a step of the initiator inside a call goes to the next position of the
\* order; a gate is released, and an item executed, only after the stores
\* and the reset
C19_OrderStep ==
  /\ (pc0' # pc0 /\ (InRun \/ InRun')) => pc0' \in RunOrder[pc0]
  /\ (InRun /\ rel' # rel) =>
        /\ starting = num /\ workBegin = begin /\ workEnd = end
        /\ pc0 \in {"r_casc1", "r_casc2", "r_load", "r_work", "r_wait"}
  /\ (execs'[0] # execs[0] /\ pc0' # "r_begin") => pc0 = "r_work" /\ Cascaded(0)

\* what has been done at each position of a call
C19_OrderState ==
  /\ (InRun => starting = num)
  /\ (InRun /\ pc0 # "r_begin" => workBegin = begin)
  /\ (InRun /\ pc0 \notin {"r_begin", "r_end"} => workEnd = end)
  /\ (pc0 \in {"r_begin", "r_end", "r_reset", "r_casc1"} =>
        /\ woken = {}
        /\ \A n \in GateIdx : Releases(n) = 0
        /\ \A t \in Threads : starts[t] = 0)
  /\ (pc0 = "r_casc1" => started = 0)
  /\ (pc0 \in {"r_wait", "r_clear"} => Ran(0, 1))
  /\ (pc0 = "r_clear" => BarrierPassed(started, num - 1))

\* C19: in every call the initiator stores starting and the descriptor, resets
\* the counter, releases the children of 0, executes its own share, waits on
\* the counter and clears the descriptor, in this order; no gate is released
\* in a round before starting and the descriptor are written and the counter
\* is reset.  (The fence lies between the last store and the reset; memory is
\* sequentially consistent here, so it is no step.)
C19_InitiatorOrder == [][C19_OrderStep]_vars /\ []C19_OrderState

C19_Witness ==
  /\ pc0 = "r_casc2"
  /\ round = 2
  /\ maxThreads = 4 /\ starting = 4
  /\ workBegin = 1 /\ workEnd = 2
  /\ started = 0
  /\ rel[1][0] = 1 /\ pc[1] = "acquire"

\* the workers woken since the current call began that have signalled
Signalled == {t \in woken : ~Active(t)}

\* a step that lowers the counter is the reset of runInternal, by thread 0,
\* taken while every spawned thread is at its loop test or at its gate
C20_ResetStep ==
  started' < started =>
    /\ pc0 = "r_reset" /\ pc0' = "r_casc1"
    /\ pc' = pc
    /\ started' = 0
    /\ \A t \in Workers : Resting(t)

\* from the return of the constructor or of a call until the reset of the
\* next call no spawned thread is on its way to a signal; during construction
\* the counter is the number of ready signals, and from the reset of a call
\* on it is the number of workers woken in that call that have signalled
C20_CountExact ==
  /\ (pc0 \in {"idle", "r_begin", "r_end", "r_reset"} => \A t \in Workers : Resting(t))
  /\ (InConstructor \/ Constructed =>
        started = Cardinality(ReadyWorkers) + (IF pc0 \in {"c_init", "c_ready"} THEN 0 ELSE 1))
  /\ (pc0 \in {"r_casc1", "r_casc2", "r_load", "r_work", "r_wait", "r_clear"} \/ Returned =>
        /\ started = Cardinality(Signalled)
        /\ started <= starting - 1)

\* C20: the counter is zeroed by the initiating thread alone, in runInternal,
\* and only when no worker can still signal for the construction or for an
\* earlier round: no signal arrives after the reset that was sent for an
\* earlier use, so the count of a round is exactly the number of that round's
\* workers that have finished.
C20_ResetAfterSignals == [][C20_ResetStep]_vars /\ []C20_CountExact

\* the counter is reset for a second round while a worker of the first has
\* signalled and is still on its way back to its gate
C20_Witness ==
  /\ pc0 = "r_casc1"
  /\ round = 2
  /\ maxThreads = 4
  /\ started = 0
  /\ pc[1] = "check" /\ pc[2] = "acquire"

\* the positions of a worker in launch, each with the positions that may follow
LaunchOrder ==
  [ check   |-> {"acquire", "exit"},
    acquire |-> {"casc1"},
    casc1   |-> {"casc2"},
    casc2   |-> {"prefix"},
    prefix  |-> {"work", "signal"},
    work    |-> {"work", "signal"},
    signal  |-> {"check"} ]

\* the items of the current call that lie before address p
Before(p) == {a \in Published : a < p}

\* a worker moves through launch in the order of lines 149-155; an item is
\* executed only between the hooks, and it is the first one not yet executed;
\* the signal adds one to the counter and comes after the suffix hook
C21_WorkerStep ==
  \A t \in Workers :
    /\ (pc[t] \in DOMAIN LaunchOrder /\ pc'[t] # pc[t]) => pc'[t] \in LaunchOrder[pc[t]]
    /\ (execs'[t] # execs[t] /\ pc0' # "r_begin") =>
          /\ pc[t] = "work" /\ t \in sampling
          /\ \A a \in Items :
               execs'[t][a] = IF a \in Before(workPtr[t] + 1) THEN 1 ELSE 0
    /\ (pc[t] = "signal" /\ pc'[t] # "signal") =>
          /\ started' = started + 1
          /\ t \notin sampling

\* what a worker has done at each position: the hooks enclose exactly the
\* execution of the items, the items before workPtr are executed once and no
\* other, a worker that signals in a call has executed the whole sequence
\* once, and a worker that has signalled is back at its loop test or gate
\* with no release to wake it again in that call; thread 0 runs no hook
C21_WorkerState ==
  /\ 0 \notin sampling
  /\ \A t \in Workers :
       /\ (t \in sampling <=> pc[t] = "work")
       /\ (pc[t] = "work" =>
             /\ workPtr[t] \in Published /\ workEndL[t] = end
             /\ \A a \in Items : execs[t][a] = IF a \in Before(workPtr[t]) THEN 1 ELSE 0)
       /\ (pc[t] \in {"casc1", "casc2", "prefix"} /\ InRun => Ran(t, 0))
       /\ (pc[t] = "signal" /\ InRun => Ran(t, 1))
       /\ (t \in woken /\ ~Active(t) /\ InRun => Ran(t, 1) /\ Resting(t) /\ starts[t] = 0)
  /\ (pc0 = "r_work" =>
        \A a \in Items : execs[0][a] = IF a \in Before(workPtr[0]) THEN 1 ELSE 0)

\* C21: each woken worker runs, once per invocation and in this order, the
\* prefix hook, every published item in published order (the whole sequence,
\* as thread 0 does), the suffix hook and one signal of the counter, and then
\* goes back to wait on its own gate; thread 0 runs neither hook.
C21_WorkerOrder == [][C21_WorkerStep]_vars /\ []C21_WorkerState

\* worker 1 has executed the first of two items and not yet the second, which
\* thread 0 has already executed
C21_Witness ==
  /\ maxThreads = 4
  /\ pc0 = "r_wait"
  /\ begin = 1 /\ end = 3
  /\ pc[1] = "work" /\ workPtr[1] = 2
  /\ execs[1][1] = 1 /\ execs[1][2] = 0
  /\ execs[0][2] = 1
  /\ 1 \in sampling

\* C22 as stated: in every state the count of every gate is 0 or 1.
C22_BinaryGates == \A t \in DOMAIN starts : starts[t] \in {0, 1}

\* the thread whose cascade releases gate t
Parent(t) == (t - 1) \div multiple

\* C22 amended: through construction and every invocation the count of every
\* gate is 0 or 1.  During shutdown it is at most 2: the destructor releases
\* each gate once, and a worker it wakes cascades with the starting of the
\* last call, so a gate t >= 3 below that starting may hold the destructor's
\* release and its parent's at once.  Gates 0, 1 and 2 never hold more than 1.
C22_GatesBounded ==
  \A t \in DOMAIN starts :
    /\ starts[t] \in {0, 1, 2}
    /\ (~shutdown => starts[t] \in {0, 1})
    /\ (starts[t] = 2 =>
          /\ t \in Workers /\ t > multiple /\ t < starting
          /\ rel[t][0] = 1 /\ rel[t][Parent(t)] = 1)
    /\ (t = 0 => starts[t] = 0)

\* the destructor and worker 1 have both released gate 3 before worker 3 woke
C22_Witness ==
  /\ maxThreads = 4
  /\ shutdown
  /\ starts[3] = 2
  /\ pc[3] = "acquire"
  /\ 1 \in woken

\* C23 as stated: during the destructor every gate is released by the
\* destroying thread and none by a worker's cascade.
C23_NoCascadeInDestroy ==
  shutdown => \A n \in GateIdx : \A t \in Workers : rel[n][t] = 0

\* C23 amended: during the destructor the destroying thread itself releases
\* the gate of every spawned worker, once and in the order 1 .. maxThreads-1,
\* so no worker depends on a cascade to be woken.  The workers it wakes still
\* cascade, with the starting of the last call: worker t also releases its
\* children below that starting, once each, and nothing else; with no call
\* made, or a last call for at most three threads, no worker releases any.
C23_DirectRelease ==
  shutdown =>
    /\ \A t \in Workers :
         rel[t][0] = IF pc0 = "d_clear" \/ (pc0 = "d_release" /\ t >= i0) THEN 0 ELSE 1
    /\ \A n \in GateIdx : n \notin Workers => rel[n][0] = 0
    /\ \A t \in Workers : \A n \in GateIdx :
         /\ rel[n][t] <= 1
         /\ (rel[n][t] = 1 => n \in {2 * t + 1, 2 * t + 2} /\ n < starting /\ t \in woken)
    /\ (starting <= 3 => \A t \in Workers : \A n \in GateIdx : rel[n][t] = 0)

\* the destructor has released every gate, and worker 1, woken by it, has
\* released gate 3 as well
C23_Witness ==
  /\ maxThreads = 4
  /\ pc0 = "d_join"
  /\ rel[1][0] = 1 /\ rel[2][0] = 1 /\ rel[3][0] = 1
  /\ rel[3][1] = 1

\* once the flag is set no item is executed, and a worker at its loop test
\* leaves the loop
C24_ShutdownStep ==
  shutdown =>
    /\ execs' = execs
    /\ \A t \in Workers : (pc[t] = "check" /\ pc'[t] # "check") => pc'[t] = "exit"

\* from the setting of the flag on the descriptor is empty, no gate is
\* released before the destructor has stored the empty descriptor, no worker
\* is executing or holds a piece of a sequence, and a worker that has been
\* woken is on its way out and never at its gate again
C24_ShutdownState ==
  shutdown =>
    /\ workBegin = 0 /\ workEnd = 0
    /\ (pc0 = "d_clear" => woken = {} /\ \A n \in GateIdx : Releases(n) = 0)
    /\ \A t \in Workers :
         /\ pc[t] # "work" /\ t \notin sampling
         /\ workPtr[t] = 0 /\ workEndL[t] = 0
         /\ (t \in woken => pc[t] \in {"casc1", "casc2", "prefix", "signal", "check", "exit"})
         /\ (pc[t] = "exit" => starts[t] = Releases(t) - (IF t \in woken THEN 1 ELSE 0))

\* C24: the destructor stores the empty descriptor before it wakes anyone;
\* from the moment the flag is set no worker executes an item, and each woken
\* worker leaves its loop after that one wake-up without waiting on its gate
\* again.
C24_EmptyShutdown == [][C24_ShutdownStep]_vars /\ []C24_ShutdownState

\* after a call with one item: worker 1 was woken by the destructor and has
\* left, worker 2 is about to signal; what worker 1 executed is the call's item
C24_Witness ==
  /\ maxThreads = 4
  /\ shutdown
  /\ begin = 1 /\ end = 2 /\ starting = 4
  /\ pc[1] = "exit" /\ 1 \in woken
  /\ pc[2] = "signal"
  /\ execs[1][1] = 1

\* the destructor's positions in the order of lines 186-196, each with the
\* positions that may follow it
DestroyOrder ==
  [ idle      |-> {"d_clear"},
    d_clear   |-> {"d_release", "d_free"},
    d_release |-> {"d_release", "d_join"},
    d_join    |-> {"d_join", "d_free"},
    d_free    |-> {"dead"} ]

\* a thread that may still call sem_post or sem_wait on a gate
UsesGates(t) == pc[t] \in {"check", "acquire", "casc1", "casc2"}

\* a step of the destructor goes to the next position of the order; the
\* arrays are freed by a step taken when every spawned thread has left launch
\* and is joined; once they are freed no gate is touched
C25_DestroyStep ==
  /\ (pc0' # pc0 /\ shutdown') => pc0' \in DestroyOrder[pc0]
  /\ (freed' /\ ~freed) =>
        /\ pc0 = "d_free"
        /\ joined = Workers
        /\ \A t \in Workers : pc[t] = "exit"
  /\ (freed => starts' = starts /\ rel' = rel /\ woken' = woken)

\* what has been done at each position of the destructor
C25_DestroyState ==
  /\ (shutdown <=> pc0 \in {"d_clear", "d_release", "d_join", "d_free", "dead"})
  /\ (pc0 \in {"d_release", "d_join", "d_free", "dead"} => workBegin = 0 /\ workEnd = 0)
  /\ (pc0 = "d_clear" => \A n \in GateIdx : Releases(n) = 0)
  /\ (pc0 = "d_release" => joined = {} /\ \A t \in Workers : rel[t][0] = IF t < i0 THEN 1 ELSE 0)
  /\ (pc0 = "d_join" =>
        /\ Cardinality(joined) = i0 - 1
        /\ \A t \in Workers : rel[t][0] = 1)
  /\ (pc0 \in {"d_free", "dead"} => joined = Workers)
  /\ (freed <=> pc0 = "dead")
  /\ (freed => \A t \in Workers : ~UsesGates(t))
  /\ (~shutdown => joined = {} /\ ~freed)

\* C25: the destructor sets the flag, stores the empty descriptor, releases
\* every gate, joins every spawned thread and only then frees the gates and
\* the thread handles, in this order; so no thread releases or waits on a
\* gate after the gates have been freed.
C25_DestroyOrder == [][C25_DestroyStep]_vars /\ []C25_DestroyState

\* the arrays are freed after a call for four threads; gate 3 still holds the
\* release that nobody took
C25_Witness ==
  /\ maxThreads = 4
  /\ freed
  /\ round = 2 /\ starting = 4
  /\ joined = {1, 2, 3}
  /\ starts[3] = 1

\* floor(log2(n)) for n >= 1
RECURSIVE Log2(_)
Log2(n) == IF n <= 1 THEN 0 ELSE 1 + Log2(n \div 2)

\* a thread that has released gate t in the current call
Releaser(t) == CHOOSE b \in Threads : rel[t][b] > 0

\* the number of releases on the way from thread 0 to gate t, read off the
\* releases that were made in the current call
RECURSIVE ChainLength(_)
ChainLength(t) == IF Releaser(t) = 0 THEN 1 ELSE 1 + ChainLength(Releaser(t))

\* the gates thread 0 has released in the current call
ReleasedBy0 == {n \in GateIdx : rel[n][0] > 0}

\* C26: in a call with count k each worker t with 1 <= t < k is woken through
\* a chain of releases that starts at thread 0 and has exactly
\* floor(log2(t+1)) releases, each link being the release of a gate by an
\* already activated thread of lower id; so when the call has passed its wait
\* the longest chain has floor(log2(k)) releases; thread 0 releases at most
\* two gates.
C26_LogarithmicWake ==
  (InRun \/ Returned) =>
    /\ \A t \in Workers : Releases(t) > 0 =>
         /\ Releaser(t) < t
         /\ (Releaser(t) # 0 => Releaser(t) \in woken)
         /\ ChainLength(t) = Log2(t + 1)
    /\ \A t \in woken : Releases(t) > 0
    /\ Cardinality(ReleasedBy0) <= 2
    /\ (PastWait =>
          /\ woken = 1 .. (num - 1)
          /\ \A t \in woken : ChainLength(t) <= Log2(num)
          /\ (num > 1 => ChainLength(num - 1) = Log2(num)))

\* a call for four threads has passed its wait: worker 3 was woken over two
\* releases, by thread 0 and then by worker 1
C26_Witness ==
  /\ maxThreads = 4
  /\ pc0 = "r_clear"
  /\ num = 4
  /\ woken = {1, 2, 3}
  /\ rel[1][0] = 1 /\ rel[3][1] = 1

\* C27: in a call every release of a gate t is made by thread (t-1) div 2,
\* for a worker t with 1 <= t < starting, and at most once; thread 0 makes
\* the releases of gates 1 and 2, inside run; once the call has passed its
\* wait every gate 1 .. starting-1 has been released exactly once and taken
\* exactly once, and no other gate at all.
C27_OnceByParent ==
  (InRun \/ Returned) =>
    /\ \A n \in GateIdx : \A by \in Threads :
         /\ rel[n][by] <= 1
         /\ (rel[n][by] = 1 =>
               /\ 1 <= n /\ n < starting
               /\ by = (n - 1) \div 2
               /\ (n \in {1, 2} <=> by = 0))
    /\ \A n \in GateIdx : Releases(n) <= 1
    /\ (PastWait => \A n \in GateIdx :
          /\ Releases(n) = IF 1 <= n /\ n < starting THEN 1 ELSE 0
          /\ (n \in Threads => starts[n] = 0))

\* a second call, for three of the four threads, has returned: gates 1 and 2
\* were released by thread 0, gate 3 by nobody
C27_Witness ==
  /\ maxThreads = 4
  /\ Returned
  /\ round = 2
  /\ starting = 3
  /\ rel[1][0] = 1 /\ rel[2][0] = 1
  /\ Releases(3) = 0

\* thread 0 is in runInternal past the reset of the counter
Counting == pc0 \in {"r_casc1", "r_casc2", "r_load", "r_work", "r_wait", "r_clear"}

\* in a call the counter changes only by the signal of one spawned thread t,
\* 1 <= t < starting, woken in this call, which has executed every item and
\* left its hooks, and which has not signalled in this call; it gains one,
\* and thread 0 takes no part in the step
C28_CountStep ==
  (Counting /\ started' # started) =>
    /\ started' = started + 1
    /\ pc0' = pc0
    /\ \E t \in Workers :
         /\ pc[t] = "signal" /\ pc'[t] = "check"
         /\ 1 <= t /\ t < starting
         /\ t \in woken /\ t \notin Signalled
         /\ Ran(t, 1) /\ t \notin sampling
         /\ Signalled' = Signalled \cup {t}
         /\ \A u \in Workers \ {t} : pc'[u] = pc[u]

\* in a call, and after it until the next begins, the workers that have
\* signalled are among 1 .. starting-1 and cannot be woken again, the counter
\* is their number and at most starting-1, thread 0 and the threads from
\* starting on are not among them, and past the wait they are all of
\* 1 .. starting-1
C28_CountState ==
  (Counting \/ Returned) =>
    /\ Signalled \subseteq 1 .. (starting - 1)
    /\ 0 \notin Signalled
    /\ \A t \in Workers : t >= starting => t \notin woken /\ ~Active(t)
    /\ \A t \in Signalled : Resting(t) /\ starts[t] = 0 /\ Releases(t) = 1
    /\ started = Cardinality(Signalled)
    /\ started <= starting - 1
    /\ (PastWait => Signalled = 1 .. (starting - 1) /\ started = starting - 1)

\* C28: in an invocation each activated worker t >= 1 adds one to the counter
\* exactly once, after its items and its suffix hook; thread 0 and the
\* workers from starting on never add to it; the counter never exceeds
\* starting-1 in the round and is starting-1 when run returns.
C28_CounterAccounting == [][C28_CountStep]_vars /\ []C28_CountState

\* in a call for three threads worker 1 has signalled, worker 2 is about to,
\* and worker 3 was not woken
C28_Witness ==
  /\ maxThreads = 4
  /\ pc0 = "r_wait"
  /\ starting = 3
  /\ started = 1
  /\ 1 \in Signalled
  /\ pc[2] = "signal"
  /\ pc[3] = "acquire" /\ 3 \notin woken

\* no call of run has begun and the destructor has not begun
BeforeFirstRun == InConstructor \/ Constructed

\* thread t has been through lines 110-114 of initThread: it has its id and,
\* the environment asking for it, it is bound, once
Initialized(t) ==
  /\ Inited(t)
  /\ (t # 0 => t \in Drawn)
  /\ bound[t] = IF ~doNotBindThreads /\ (t # 0 \/ ~doNotBindMain) THEN 1 ELSE 0

\* before the first call a step that raises the counter is the ready signal
\* of one thread, thread 0 or a spawned one, which is initialized
C29_ReadyStep ==
  (BeforeFirstRun /\ started' # started) =>
    /\ started' = started + 1
    /\ bound' = bound
    /\ \/ pc0 = "c_ready" /\ pc0' = "c_alloc" /\ pc' = pc /\ Initialized(0)
       \/ /\ pc0' = pc0
          /\ \E t \in Workers :
               /\ pc[t] = "ready" /\ pc'[t] = "check"
               /\ Initialized(t)
               /\ \A u \in Workers \ {t} : pc'[u] = pc[u]

\* a spawned thread that has signalled ready is initialized; once the
\* constructor has returned every thread is, and every spawned one is at its
\* loop test or parked at its gate; until the first call begins no spawned
\* thread is woken, none releases a gate and none executes a work item
C29_ReadyState ==
  /\ \A t \in ReadyWorkers : Initialized(t)
  /\ (~InConstructor => \A t \in Threads : Initialized(t))
  /\ (Constructed =>
        /\ Cardinality(Threads) = maxThreads
        /\ \A t \in Workers : Resting(t))
  /\ (BeforeFirstRun =>
        /\ woken = {}
        /\ \A t \in Workers :
             /\ ~Active(t) /\ pc[t] # "exit" /\ t \notin sampling
             /\ \A a \in Items : execs[t][a] = 0
        /\ \A n \in GateIdx : Releases(n) = 0
        /\ \A n \in DOMAIN starts : starts[n] = 0)

\* C29: a thread signals ready only after its id, its per-thread state and
\* its binding are set, so that the constructor returns with all maxThreads
\* threads initialized; no spawned thread cascades or executes a work item
\* before the first call of run.
C29_ReadyAfterInit == [][C29_ReadyStep]_vars /\ []C29_ReadyState

\* the constructor still waits: worker 2 has bound itself and not yet
\* signalled, worker 1 has signalled and is parked, worker 3 has only its id
C29_Witness ==
  /\ maxThreads = 4
  /\ pc0 = "c_wait"
  /\ started = 2
  /\ pc[1] = "acquire"
  /\ pc[2] = "ready" /\ bound[2] = 1
  /\ pc[3] = "init" /\ bound[3] = 0

\* thread t has released, in the current call, each gate 2t+1, 2t+2 that is
\* below starting
ChildrenReleased(t) ==
  \A i \in 1 .. 2 : (2 * t + i < starting) => rel[2 * t + i][t] = 1

\* thread t has called no hook and executed no item in the current call
NothingRun(t) == t \notin sampling /\ \A a \in Items : execs[t][a] = 0

\* in a call a thread releases a gate only while it has run neither a hook
\* nor an item, and it executes an item only when its children are released
C30_CascadeStep ==
  (InRun /\ pc0' # "r_begin") =>
    \A t \in Threads :
      /\ (\E n \in GateIdx : rel'[n][t] # rel[n][t]) =>
            /\ NothingRun(t)
            /\ (IF t = 0 THEN pc0 \in {"r_casc1", "r_casc2"}
                         ELSE pc[t] \in {"casc1", "casc2"})
      /\ (execs'[t] # execs[t] \/ (t \in sampling' /\ t \notin sampling)) =>
            ChildrenReleased(t)

\* in a call: a worker that is at its prefix hook, among its items or at its
\* signal, or has signalled, has released its children; thread 0 has once it
\* is past cascade(0); a thread still in its cascade has run nothing
C30_CascadeState ==
  (InRun \/ Returned) =>
    /\ \A t \in Workers :
         /\ (pc[t] \in {"prefix", "work", "signal"} => ChildrenReleased(t))
         /\ (t \in woken /\ ~Active(t) => ChildrenReleased(t))
         /\ (pc[t] \in {"casc1", "casc2"} => NothingRun(t))
    /\ (pc0 \in {"r_load", "r_work", "r_wait", "r_clear"} \/ Returned => ChildrenReleased(0))
    /\ (pc0 \in {"r_begin", "r_end", "r_reset", "r_casc1", "r_casc2"} => NothingRun(0))

\* C30: a woken worker releases the gates of its children before its prefix
\* hook and before any work item, and thread 0 calls cascade(0) before its
\* own share: the wake-up of a thread's descendants does not wait for that
\* thread's items.
C30_CascadeBeforeWork == [][C30_CascadeStep]_vars /\ []C30_CascadeState

\* worker 3 has been woken by worker 1 and has finished the round while
\* worker 1 and thread 0 have not yet executed their item
C30_Witness ==
  /\ maxThreads = 4
  /\ starting = 4
  /\ begin = 1 /\ end = 2
  /\ pc0 = "r_work" /\ execs[0][1] = 0
  /\ pc[1] = "work" /\ execs[1][1] = 0
  /\ rel[3][1] = 1
  /\ 3 \in Signalled /\ execs[3][1] = 1

\* worker t has passed its gate in the current run or destroy: 1 if so, else 0
Passed(t) == IF t \in woken THEN 1 ELSE 0

\* an interrupted wait changes nothing but the position of the waiting
\* worker, which then calls sem_wait again; a worker enters its cascade only
\* from a wait that returned on a positive count, which it lowers by one
C31_WaitStep ==
  \A t \in Workers :
    /\ (pc[t] = "acquire" /\ pc'[t] = "eintr") =>
          /\ starts[t] = 0
          /\ starts' = starts /\ woken' = woken /\ rel' = rel /\ execs' = execs
          /\ started' = started /\ pc0' = pc0
          /\ \A u \in Workers \ {t} : pc'[u] = pc[u]
    /\ (pc[t] = "eintr" /\ pc'[t] # "eintr") =>
          /\ pc'[t] = "acquire"
          /\ starts' = starts /\ woken' = woken /\ rel' = rel /\ execs' = execs
          /\ started' = started /\ pc0' = pc0
    /\ (pc[t] # "casc1" /\ pc'[t] = "casc1") =>
          /\ pc[t] = "acquire"
          /\ starts[t] >= 1 /\ starts'[t] = starts[t] - 1
          /\ t \notin woken /\ t \in woken'
          /\ Releases(t) >= 1 /\ rel' = rel

\* a worker whose wait was interrupted is outside its hooks, the process
\* goes on, and in every run and in the shutdown the releases of a
\* gate are those still held in its count and the one that let its worker
\* through: no passage without a release, no release used twice
C31_WaitState ==
  /\ pc0 \notin DieSites
  /\ \A t \in Workers :
       /\ (pc[t] = "eintr" => t \notin sampling /\ t \in Drawn)
       /\ (Active(t) => t \in woken /\ Releases(t) >= 1)
       /\ (t \in DOMAIN starts => Releases(t) = starts[t] + Passed(t))

\* C31: a gate wait interrupted by a signal is called again; the interruption
\* neither wakes the worker nor ends the process. A parked worker goes on to
\* cascade and work only after a release of its gate, and each release lets
\* it through once.
C31_InterruptedWaitRetried == [][C31_WaitStep]_vars /\ []C31_WaitState

\* in a call worker 1 was interrupted while parked and thread 0 has released
\* its gate since: the release is held for the wait that will be called again
C31_Witness ==
  /\ maxThreads = 4
  /\ pc0 = "r_casc2"
  /\ pc[1] = "eintr"
  /\ starts[1] = 1 /\ rel[1][0] = 1
  /\ 1 \notin woken

=============================================================================
